---------------------------- MODULE Spec2Model ----------------------------
(***************************************************************************)
(* Model of the access-reporting controllers of                            *)
(* src/entities/accessHistory/accessHistory.controller.ts:                 *)
(*   getAccessHistories, getRoomAccessHistories, generateDailyReport,      *)
(*   getRoomUsageStats, getDateReport.                                     *)
(*                                                                         *)
(* Time is counted in ticks of one thousandth of an hour (3600 ms), so     *)
(* that toFixed(2) on hours really rounds.  The server's local zone is     *)
(* taken to be UTC.  One action is one synchronous segment of a handler:   *)
(* the code between two awaits runs atomically on the event loop, and      *)
(* other operations on the stores may run at every await.  Every access    *)
(* row refers to an existing person and room (foreign keys), and an access *)
(* is created active and changed once, by its exit or its cancellation.    *)
(***************************************************************************)
EXTENDS Integers, Sequences, FiniteSets, TLC

VARIABLES
    persons,      \* person table: set of [id, name, surnames]
    rooms,        \* room table: set of [id, room_name]
    accessStore,  \* access table: sequence of rows, id = position
    snapshots,    \* administration table: sequence of ReportSnapshot rows
    pc,           \* position of the request in flight
    endpoint,     \* handler serving the request in flight
    req,          \* req.query and req.params of the request in flight
    period,       \* [start, end] computed by the handler, or NoPeriod
    reportDate,   \* the value the handler will store in report_date
    locals,       \* results of the awaits already passed
    sent,         \* response envelopes sent for the request in flight
    queries,      \* store queries issued by the request in flight
    snapshots0,   \* the administration table when the request arrived
    generated,    \* report_date of every 201 answered so far
    opsLeft       \* requests and entries the clients may still issue

vars == <<persons, rooms, accessStore, snapshots, pc, endpoint, req, period,
          reportDate, locals, sent, queries, snapshots0, generated, opsLeft>>

-----------------------------------------------------------------------------
(* Bounds of the model. *)

MaxOps == 3

(* Program constants and the time scale. *)

NULL == -1

NaN == -2

FrequentThreshold == 3

TicksPerHour == 1000

HoursPerDay == 24

HundredthsPerUnit == 100

TicksPerDay == TicksPerHour * HoursPerDay

Days == {0, 1}

Durations == {20, 1500}

LongDuration == {1500}

NewEntryOffset == 10 * TicksPerHour

-----------------------------------------------------------------------------
(* Pure helpers. *)

Range(s) == {s[i] : i \in 1..Len(s)}

IsNaN(x) == x = NaN

(* new Date(string).getTime(): ISO dates parse to UTC midnight of the day,  *)
(* every other string of the model to an Invalid Date.                     *)
NewDate(s) ==
    CASE s = "2024-01-01" -> 0 * TicksPerDay
      [] s = "2024-01-02" -> 1 * TicksPerDay
      [] OTHER -> NaN

(* endDate.setHours(23, 59, 59, 999): the last tick of the day; an Invalid  *)
(* Date stays invalid.                                                      *)
SetHoursEndOfDay(t) ==
    IF IsNaN(t) THEN NaN
    ELSE (t \div TicksPerDay) * TicksPerDay + (TicksPerDay - 1)

DayOf(t) == t \div TicksPerDay

(* typeorm Between(a, b) *)
Between(t, a, b) == a <= t /\ t <= b

(* A query parameter as express hands it over: undefined, a string, or an   *)
(* array (a repeated parameter); str is what String(value) gives.           *)
Undefined == [kind |-> "undefined", str |-> "undefined"]

Str(s) == [kind |-> "string", str |-> s]

Arr(s) == [kind |-> "array", str |-> s]

GoodValues == {Str("2024-01-01"), Str("2024-01-02")}

BadValues ==
    {Undefined, Str(""), Str("not-a-date"), Arr("not-a-date,not-a-date")}

(* The <<start_date, end_date>> of the requests: two good values, one bad   *)
(* value in either place, the same bad value twice, and two mixed pairs.    *)
DateQueries ==
    (GoodValues \X GoodValues)
      \cup (BadValues \X {Str("2024-01-01")})
      \cup ({Str("2024-01-02")} \X BadValues)
      \cup {<<b, b>> : b \in BadValues}
      \cup {<<Str("not-a-date"), Undefined>>,
            <<Arr("not-a-date,not-a-date"), Str("not-a-date")>>}

(* JavaScript truthiness of a query value: !v *)
Falsy(v) == v.kind = "undefined" \/ (v.kind = "string" /\ v.str = "")

(* parseInt(string): the value of the longest prefix of digits, NaN when    *)
(* the string does not start with a digit.                                  *)
DigitValue(c) ==
    CASE c = "0" -> 0 [] c = "1" -> 1 [] c = "2" -> 2 [] c = "3" -> 3
      [] c = "4" -> 4 [] c = "5" -> 5 [] c = "6" -> 6 [] c = "7" -> 7
      [] c = "8" -> 8 [] c = "9" -> 9 [] OTHER -> NaN

RECURSIVE ParseDigits(_, _)
ParseDigits(s, acc) ==
    IF s = <<>> \/ IsNaN(DigitValue(Head(s))) THEN acc
    ELSE ParseDigits(Tail(s), 10 * acc + DigitValue(Head(s)))

ParseInt(s) ==
    IF s = <<>> \/ IsNaN(DigitValue(Head(s))) THEN NaN
    ELSE ParseDigits(s, 0)

RoomIdParams == {<<"1", "x">>, <<"7">>, <<"x">>}

(* toFixed(2) of ticks / (TicksPerHour * n) hours, in hundredths of an     *)
(* hour: the nearest hundredth.  (The durations of the model never put the  *)
(* quotient exactly between two hundredths.)                                *)
ToFixed2(ticks, n) ==
    (2 * HundredthsPerUnit * ticks + TicksPerHour * n)
        \div (2 * TicksPerHour * n)

-----------------------------------------------------------------------------
(* The stores. *)

PersonOf(id) == CHOOSE p \in persons : p.id = id

RoomOf(id) == CHOOSE r \in rooms : r.id = id

FullName(p) == p.name \o " " \o p.surnames

AccessRow(i, p, r, t, x, st) ==
    [id |-> i, person_id |-> p, room_id |-> r, entry_datetime |-> t,
     exit_datetime |-> x, state |-> st]

(* An entry is created: a new active row. *)
CreateEntry(p, r, t) ==
    /\ opsLeft > 0
    /\ accessStore' = Append(accessStore,
                             AccessRow(Len(accessStore) + 1, p, r, t, NULL, "active"))
    /\ opsLeft' = opsLeft - 1
    /\ UNCHANGED <<persons, rooms>>

(* The exit of an active access is recorded. *)
RecordExit(i, d) ==
    /\ accessStore[i].state = "active"
    /\ accessStore' = [accessStore EXCEPT
                         ![i].exit_datetime = accessStore[i].entry_datetime + d,
                         ![i].state = "completed"]
    /\ UNCHANGED <<persons, rooms, opsLeft>>

(* An active access is cancelled. *)
CancelAccess(i) ==
    /\ accessStore[i].state = "active"
    /\ accessStore' = [accessStore EXCEPT ![i].state = "cancelled"]
    /\ UNCHANGED <<persons, rooms, opsLeft>>

reqVars == <<snapshots, pc, endpoint, req, period, reportDate, locals, sent,
             queries, snapshots0, generated>>

StoreOp(durations) ==
    /\ \/ \E p \in persons, r \in rooms, d \in Days :
            CreateEntry(p.id, r.id, d * TicksPerDay + NewEntryOffset)
       \/ \E i \in 1..Len(accessStore), d \in durations : RecordExit(i, d)
       \/ \E i \in 1..Len(accessStore) : CancelAccess(i)
    /\ UNCHANGED reqVars

-----------------------------------------------------------------------------
(* The store queries of the handlers. *)

InPeriod(a, per) == Between(a.entry_datetime, per.start, per.end)

(* access.find / accessHistory.find({ entry_datetime: Between(start, end) }) *)
FindInPeriod(per) ==
    SelectSeq(accessStore, LAMBDA a : InPeriod(a, per))

(* accessHistory.find({ room_id, entry_datetime: Between(start, end) }) *)
FindRoomInPeriod(rid, per) ==
    SelectSeq(accessStore, LAMBDA a : a.room_id = rid /\ InPeriod(a, per))

(* access.find({ entry_datetime: Between(..), exit_datetime: Not(IsNull()) }) *)
FindCompleted(per) ==
    SelectSeq(accessStore, LAMBDA a : InPeriod(a, per) /\ a.exit_datetime # NULL)

(* Variant: the state filter of the cancelled query is left out. *)
FindCancelled_AnyState(per) ==
    FindInPeriod(per)

(* access.find({ entry_datetime: Between(..), state: 'cancelled' }) *)
FindCancelled(per) ==
    SelectSeq(accessStore, LAMBDA a : InPeriod(a, per) /\ a.state = "cancelled")

NoRoom == [id |-> NULL, room_name |-> ""]

(* Variant: findOne without its where clause returns the first room. *)
FindOneRoom_First(rid) ==
    IF rooms = {} THEN NoRoom ELSE CHOOSE r \in rooms : TRUE

(* room.findOne({ where: { id } }): the room, or none *)
FindOneRoom(rid) ==
    IF \E r \in rooms : r.id = rid THEN RoomOf(rid) ELSE NoRoom

(* The grouped count: one row per person (inner join) with at least one    *)
(* access of the period whose exit_datetime is not null.                    *)
GroupedCounts(per) ==
    LET done == Range(FindCompleted(per))
        count(p) == Cardinality({a \in done : a.person_id = p.id})
    IN  {[userId |-> p.id, accessCount |-> count(p), name |-> p.name,
          surnames |-> p.surnames] : p \in {q \in persons : count(q) > 0}}

(* ORDER BY accessCount DESC: every order of the rows with non-increasing   *)
(* counts (the order among equal counts is the database's choice).          *)
OrderByCountDesc(S) ==
    {s \in [1..Cardinality(S) -> S] :
        /\ \A i, j \in DOMAIN s : i # j => s[i] # s[j]
        /\ \A i, j \in DOMAIN s : i < j => s[i].accessCount >= s[j].accessCount}

(* ORDER BY entry_datetime DESC of a find result. *)
OrderByEntryDesc(rows) ==
    {s \in [1..Len(rows) -> Range(rows)] :
        /\ \A i, j \in DOMAIN s : i # j => s[i] # s[j]
        /\ \A i, j \in DOMAIN s :
              i < j => s[i].entry_datetime >= s[j].entry_datetime}

-----------------------------------------------------------------------------
(* Responses and the request in flight. *)

NoData == [none |-> TRUE]

NoPeriod == [start |-> NULL, end |-> NULL]

NoLocals ==
    [accesses |-> <<>>, absences |-> <<>>, room_id |-> NULL,
     roomExists |-> NoRoom, report |-> NoData]

Envelope(status, success, message, data) ==
    [status |-> status, success |-> success, message |-> message, data |-> data]

(* A request arrives: express calls the handler with a fresh req and res. *)
NoRequest == [start_date |-> Undefined, end_date |-> Undefined, room_id |-> <<>>]

Request(sd, ed, rid) == [start_date |-> sd, end_date |-> ed, room_id |-> rid]

Arrive(ep, r) ==
    /\ pc \in {"idle", "done"}
    /\ req' = r
    /\ opsLeft > 0
    /\ opsLeft' = opsLeft - 1
    /\ endpoint' = ep
    /\ snapshots0' = snapshots
    /\ queries' = 0
    /\ UNCHANGED <<snapshots, generated, persons, rooms, accessStore>>

(* The handler answers before its first await: return res.status(..).json(..) *)
AnswerAtOnce(status, message) ==
    /\ sent' = <<Envelope(status, FALSE, message, NoData)>>
    /\ pc' = "done"
    /\ period' = NoPeriod
    /\ reportDate' = NULL
    /\ locals' = NoLocals

(* The handler reaches its first await at position p. *)
AwaitFirst(p, per, date, loc) ==
    /\ sent' = <<>>
    /\ pc' = p
    /\ period' = per
    /\ reportDate' = date
    /\ locals' = loc

(* An await returns and the handler runs on to its next await. *)
Resume(ep, p) ==
    /\ pc = p
    /\ endpoint = ep
    /\ UNCHANGED <<persons, rooms, accessStore, opsLeft, endpoint, req, period,
                   reportDate, snapshots0>>

(* The handler answers and returns. *)
Answer(status, success, message, data) ==
    /\ sent' = Append(sent, Envelope(status, success, message, data))
    /\ pc' = "done"

(* The catch block: res.status(500).json({ success: false, .. }) *)
Catch(message) ==
    /\ Answer(500, FALSE, message, NoData)
    /\ UNCHANGED <<locals, snapshots, generated>>

(* histories.map(history => ({ id, person_name, room_name, .. })) *)
FormatHistories(histories) ==
    [i \in 1..Len(histories) |->
        [id |-> histories[i].id,
         person_name |-> FullName(PersonOf(histories[i].person_id)),
         room_name |-> RoomOf(histories[i].room_id).room_name,
         entry_datetime |-> histories[i].entry_datetime,
         exit_datetime |-> histories[i].exit_datetime]]

(* Variant: the check of the parsed dates is left out. *)
ValidateDates_NoFormatCheck(sd, ed) ==
    IF Falsy(sd) \/ Falsy(ed) \/ sd.kind # "string" \/ ed.kind # "string"
    THEN "Start date and end date are required"
    ELSE ""

(* The validation of start_date and end_date of the two history handlers:   *)
(* the message of the 400 it answers, or "" when the dates are accepted.    *)
ValidateDates(sd, ed) ==
    IF Falsy(sd) \/ Falsy(ed) \/ sd.kind # "string" \/ ed.kind # "string"
    THEN "Start date and end date are required"
    ELSE IF IsNaN(NewDate(sd.str)) \/ IsNaN(NewDate(ed.str))
    THEN "Invalid date format. Use YYYY-MM-DD"
    ELSE ""

PeriodOf(sd, ed) ==
    [start |-> NewDate(sd.str), end |-> SetHoursEndOfDay(NewDate(ed.str))]

-----------------------------------------------------------------------------
(* getAccessHistories *)

getAccessHistories_validate(sd, ed) ==
    /\ Arrive("getAccessHistories", Request(sd, ed, <<>>))
    /\ IF ValidateDates(sd, ed) # ""
       THEN AnswerAtOnce(400, ValidateDates(sd, ed))
       ELSE AwaitFirst("find", PeriodOf(sd, ed), NULL, NoLocals)

getAccessHistories_find(ok) ==
    /\ Resume("getAccessHistories", "find")
    /\ queries' = queries + 1
    /\ IF ok
       THEN /\ \E histories \in OrderByEntryDesc(FindInPeriod(period)) :
                 Answer(200, TRUE, "Access histories retrieved successfully",
                        [histories |-> FormatHistories(histories)])
            /\ UNCHANGED <<locals, snapshots, generated>>
       ELSE Catch("An error occurred while fetching access histories")

-----------------------------------------------------------------------------
(* getRoomAccessHistories *)

getRoomAccessHistories_validate(rid, sd, ed) ==
    /\ Arrive("getRoomAccessHistories", Request(sd, ed, rid))
    /\ IF IsNaN(ParseInt(rid))
       THEN AnswerAtOnce(400, "Invalid room ID")
       ELSE IF ValidateDates(sd, ed) # ""
       THEN AnswerAtOnce(400, ValidateDates(sd, ed))
       ELSE AwaitFirst("findRoom", PeriodOf(sd, ed), NULL,
                       [NoLocals EXCEPT !.room_id = ParseInt(rid)])

getRoomAccessHistories_findRoom(ok) ==
    /\ Resume("getRoomAccessHistories", "findRoom")
    /\ queries' = queries + 1
    /\ IF ok
       THEN LET roomExists == FindOneRoom(locals.room_id)
            IN  IF roomExists = NoRoom
                THEN /\ Answer(404, FALSE, "Room not found", NoData)
                     /\ UNCHANGED <<locals, snapshots, generated>>
                ELSE /\ locals' = [locals EXCEPT !.roomExists = roomExists]
                     /\ pc' = "find"
                     /\ UNCHANGED <<sent, snapshots, generated>>
       ELSE Catch("Error getting room access histories")

getRoomAccessHistories_find(ok) ==
    /\ Resume("getRoomAccessHistories", "find")
    /\ queries' = queries + 1
    /\ IF ok
       THEN /\ \E histories \in
                   OrderByEntryDesc(FindRoomInPeriod(locals.room_id, period)) :
                 Answer(200, TRUE, "Room access histories retrieved successfully",
                        [room_id |-> locals.room_id,
                         room_name |-> locals.roomExists.room_name,
                         access_histories |-> FormatHistories(histories)])
            /\ UNCHANGED <<locals, snapshots, generated>>
       ELSE Catch("Error getting room access histories")

-----------------------------------------------------------------------------
(* The report of generateDailyReport and getDateReport. *)

(* Variant: the frequent cohort starts at the threshold itself. *)
FrequentUsers_AtLeast(allActiveUsers) ==
    SelectSeq(allActiveUsers, LAMBDA u : u.accessCount >= FrequentThreshold)

(* allActiveUsers.filter(user => parseInt(user.accessCount) > 3) *)
FrequentUsers(allActiveUsers) ==
    SelectSeq(allActiveUsers, LAMBDA u : u.accessCount > FrequentThreshold)

(* allActiveUsers.filter(user => parseInt(user.accessCount) <= 3) *)
InfrequentUsers(allActiveUsers) ==
    SelectSeq(allActiveUsers, LAMBDA u : u.accessCount <= FrequentThreshold)

(* users.map(u => ({ name: `${u.name} ${u.surnames}`, accessCount })) *)
FormatUsers(users) ==
    [i \in 1..Len(users) |->
        [name |-> FullName(users[i]), accessCount |-> users[i].accessCount]]

(* accesses.map(a => ({ person, room, entry_time, exit_time })) *)
FormatAccesses(accesses) ==
    [i \in 1..Len(accesses) |->
        [person |-> FullName(PersonOf(accesses[i].person_id)),
         room |-> RoomOf(accesses[i].room_id).room_name,
         entry_time |-> accesses[i].entry_datetime,
         exit_time |-> accesses[i].exit_datetime]]

(* absences.map(a => ({ person, room, scheduled_entry_time })) *)
FormatAbsences(absences) ==
    [i \in 1..Len(absences) |->
        [person |-> FullName(PersonOf(absences[i].person_id)),
         room |-> RoomOf(absences[i].room_id).room_name,
         scheduled_entry_time |-> absences[i].entry_datetime]]

DetailedReport(per, accesses, absences, allActiveUsers) ==
    [report_period |-> [start_date |-> per.start, end_date |-> per.end],
     total_accesses |-> Len(accesses),
     total_absences |-> Len(absences),
     accesses |-> FormatAccesses(accesses),
     absences |-> FormatAbsences(absences),
     frequent_users |-> FormatUsers(FrequentUsers(allActiveUsers)),
     infrequent_users |-> FormatUsers(InfrequentUsers(allActiveUsers))]

(* new administration() filled from the report; the id is generated by the *)
(* table (increment).                                                       *)
NewReport(date, report) ==
    [id |-> Len(snapshots) + 1,
     report_date |-> date,
     total_accesses |-> report.total_accesses,
     total_absences |-> report.total_absences,
     frequent_users |-> report.frequent_users,
     infrequent_users |-> report.infrequent_users]

(* Variant: the row is never written. *)
Save_Skipped(row) == snapshots

(* Variant: a row of the same report_date is overwritten. *)
Save_Upsert(row) ==
    IF \E i \in 1..Len(snapshots) : snapshots[i].report_date = row.report_date
    THEN [i \in 1..Len(snapshots) |->
            IF snapshots[i].report_date = row.report_date
            THEN [row EXCEPT !.id = i] ELSE snapshots[i]]
    ELSE Append(snapshots, row)

(* newReport.save(): one row is inserted. *)
Save(row) == Append(snapshots, row)

(* await access.find({ .., exit_datetime: Not(IsNull()) }) *)
CompletedStep(ep, ok, failure) ==
    /\ Resume(ep, "completed")
    /\ queries' = queries + 1
    /\ IF ok
       THEN /\ locals' = [locals EXCEPT !.accesses = FindCompleted(period)]
            /\ pc' = "cancelled"
            /\ UNCHANGED <<sent, snapshots, generated>>
       ELSE Catch(failure)

(* await access.find({ .., state: 'cancelled' }) *)
CancelledStep(ep, ok, failure) ==
    /\ Resume(ep, "cancelled")
    /\ queries' = queries + 1
    /\ IF ok
       THEN /\ locals' = [locals EXCEPT !.absences = FindCancelled(period)]
            /\ pc' = "grouped"
            /\ UNCHANGED <<sent, snapshots, generated>>
       ELSE Catch(failure)

(* await access.createQueryBuilder(..).getRawMany(), then the report and   *)
(* the new administration row are built and save() is called.               *)
GroupedStep(ep, ok, failure) ==
    /\ Resume(ep, "grouped")
    /\ queries' = queries + 1
    /\ IF ok
       THEN /\ \E allActiveUsers \in OrderByCountDesc(GroupedCounts(period)) :
                 locals' = [locals EXCEPT !.report =
                               DetailedReport(period, locals.accesses,
                                              locals.absences, allActiveUsers)]
            /\ pc' = "save"
            /\ UNCHANGED <<sent, snapshots, generated>>
       ELSE Catch(failure)

(* Variant: the 201 is sent before save() is awaited, so that a failing    *)
(* save answers a second time from the catch block.                         *)
SaveStep_AnswerFirst(ep, ok, success, failure) ==
    /\ Resume(ep, "save")
    /\ UNCHANGED queries
    /\ pc' = "done"
    /\ UNCHANGED locals
    /\ IF ok
       THEN /\ snapshots' = Append(snapshots, NewReport(reportDate, locals.report))
            /\ sent' = Append(sent, Envelope(201, TRUE, success, locals.report))
            /\ generated' = Append(generated, reportDate)
       ELSE /\ sent' = sent \o <<Envelope(201, TRUE, success, locals.report),
                                  Envelope(500, FALSE, failure, NoData)>>
            /\ UNCHANGED <<snapshots, generated>>

(* await newReport.save(), then res.status(201).json(..) *)
SaveStep(ep, ok, success, failure) ==
    /\ Resume(ep, "save")
    /\ UNCHANGED queries
    /\ IF ok
       THEN /\ snapshots' = Save(NewReport(reportDate, locals.report))
            /\ Answer(201, TRUE, success, locals.report)
            /\ generated' = Append(generated, reportDate)
            /\ UNCHANGED locals
       ELSE Catch(failure)

-----------------------------------------------------------------------------
(* generateDailyReport: the period runs from the first day of the month of *)
(* now to the end of today; first is the day the month of now began.        *)

generateDailyReport_begin(first, today) ==
    /\ Arrive("generateDailyReport", NoRequest)
    /\ AwaitFirst("completed",
                  [start |-> first * TicksPerDay,
                   end |-> today * TicksPerDay + (TicksPerDay - 1)],
                  today, NoLocals)

generateDailyReport_completed(ok) ==
    CompletedStep("generateDailyReport", ok, "Error generating daily report")

generateDailyReport_cancelled(ok) ==
    CancelledStep("generateDailyReport", ok, "Error generating daily report")

generateDailyReport_grouped(ok) ==
    GroupedStep("generateDailyReport", ok, "Error generating daily report")

generateDailyReport_save(ok) ==
    SaveStep("generateDailyReport", ok,
             "Daily report generated and saved successfully",
             "Error generating daily report")

-----------------------------------------------------------------------------
(* getDateReport *)

getDateReport_validate(sd, ed) ==
    /\ Arrive("getDateReport", Request(sd, ed, <<>>))
    /\ IF Falsy(sd) \/ Falsy(ed)
       THEN AnswerAtOnce(400, "Start date and end date are required")
       ELSE LET startDate == NewDate(sd.str)
                endDate == SetHoursEndOfDay(NewDate(ed.str))
            IN  IF IsNaN(startDate) \/ IsNaN(endDate)
                THEN AnswerAtOnce(400, "Invalid date format. Use YYYY-MM-DD")
                ELSE AwaitFirst("completed",
                                [start |-> startDate, end |-> endDate],
                                DayOf(startDate), NoLocals)

getDateReport_completed(ok) ==
    CompletedStep("getDateReport", ok, "Error generating custom report")

getDateReport_cancelled(ok) ==
    CancelledStep("getDateReport", ok, "Error generating custom report")

getDateReport_grouped(ok) ==
    GroupedStep("getDateReport", ok, "Error generating custom report")

getDateReport_save(ok) ==
    SaveStep("getDateReport", ok,
             "Custom report generated and saved successfully",
             "Error generating custom report")

-----------------------------------------------------------------------------
(* getRoomUsageStats *)

(* accesses.filter(a => a.room.id === room.id) *)
RoomAccesses(accesses, room) ==
    SelectSeq(accesses, LAMBDA a : a.room_id = room.id)

(* Variant: every access of the room is taken as completed. *)
CompletedAccesses_All(roomAccesses) ==
    roomAccesses

(* roomAccesses.filter(a => a.exit_datetime !== null) *)
CompletedAccesses(roomAccesses) ==
    SelectSeq(roomAccesses, LAMBDA a : a.exit_datetime # NULL)

(* roomAccesses.filter(a => a.state === 'cancelled') *)
CancelledAccesses(roomAccesses) ==
    SelectSeq(roomAccesses, LAMBDA a : a.state = "cancelled")

(* completedAccesses.forEach(a => { totalHours += duration; .. }), in ticks *)
RECURSIVE TotalDuration(_)
TotalDuration(completedAccesses) ==
    IF completedAccesses = <<>> THEN 0
    ELSE (Head(completedAccesses).exit_datetime
            - Head(completedAccesses).entry_datetime)
         + TotalDuration(Tail(completedAccesses))

(* Variant: the average is cut, not rounded, to two decimals. *)
AverageDuration_Truncated(totalDuration, completed) ==
    IF completed > 0
    THEN (HundredthsPerUnit * totalDuration) \div (TicksPerHour * completed)
    ELSE 0

(* completedAccesses.length > 0 ? totalDuration / completedAccesses.length  *)
(* : 0, then parseFloat(averageDuration.toFixed(2)); in hundredths of hour  *)
AverageDuration(totalDuration, completed) ==
    IF completed > 0 THEN ToFixed2(totalDuration, completed) ELSE 0

RoomStat(accesses, room) ==
    LET roomAccesses == RoomAccesses(accesses, room)
        completedAccesses == CompletedAccesses(roomAccesses)
        cancelledAccesses == CancelledAccesses(roomAccesses)
    IN  [room_id |-> room.id,
         room_name |-> room.room_name,
         total_accesses |-> Len(roomAccesses) - Len(cancelledAccesses),
         completed_accesses |-> Len(completedAccesses),
         cancelled_accesses |-> Len(cancelledAccesses),
         total_hours_used |-> ToFixed2(TotalDuration(completedAccesses), 1),
         average_duration |-> AverageDuration(TotalDuration(completedAccesses),
                                              Len(completedAccesses))]

(* roomStats.reduce((sum, stat) => sum + stat.<field>, 0) *)
RECURSIVE SumStats(_, _)
SumStats(roomStats, field) ==
    IF roomStats = {} THEN 0
    ELSE LET stat == CHOOSE x \in roomStats : TRUE
         IN  stat[field] + SumStats(roomStats \ {stat}, field)

UsageResponse(per, today, first, accesses) ==
    LET roomStats == {RoomStat(accesses, room) : room \in rooms}
    IN  [period |-> <<DayOf(per.start), DayOf(per.end)>>,
         days_in_period |-> today - first + 1,
         total_accesses |-> SumStats(roomStats, "total_accesses"),
         total_cancellations |-> SumStats(roomStats, "cancelled_accesses"),
         total_hours_used |-> SumStats(roomStats, "total_hours_used"),
         room_stats |-> roomStats]

getRoomUsageStats_begin(first, today) ==
    /\ Arrive("getRoomUsageStats", NoRequest)
    /\ AwaitFirst("find",
                  [start |-> first * TicksPerDay,
                   end |-> today * TicksPerDay + (TicksPerDay - 1)],
                  today, NoLocals)

getRoomUsageStats_find(ok) ==
    /\ Resume("getRoomUsageStats", "find")
    /\ queries' = queries + 1
    /\ IF ok
       THEN /\ locals' = [locals EXCEPT !.accesses = FindInPeriod(period)]
            /\ pc' = "rooms"
            /\ UNCHANGED <<sent, snapshots, generated>>
       ELSE Catch("Error retrieving room usage statistics")

getRoomUsageStats_rooms(ok) ==
    /\ Resume("getRoomUsageStats", "rooms")
    /\ queries' = queries + 1
    /\ IF ok
       THEN /\ Answer(200, TRUE,
                      "Room usage statistics from the beginning of the month to today retrieved successfully",
                      UsageResponse(period, reportDate, DayOf(period.start),
                                    locals.accesses))
            /\ UNCHANGED <<locals, snapshots, generated>>
       ELSE Catch("Error retrieving room usage statistics")

-----------------------------------------------------------------------------
(* Initial states and the next-state relation. *)

Person1 == [id |-> 1, name |-> "Ana", surnames |-> "Ruiz"]

Person2 == [id |-> 2, name |-> "Luis", surnames |-> "Gil"]

Room1 == [id |-> 1, room_name |-> "Sala A"]

Room2 == [id |-> 2, room_name |-> "Sala B"]

(* Three completed accesses of person 1 on day 0. *)
FrequentSeed ==
    <<AccessRow(1, 1, 1, 8 * TicksPerHour, 9 * TicksPerHour, "completed"),
      AccessRow(2, 1, 1, 9 * TicksPerHour, 10 * TicksPerHour, "completed"),
      AccessRow(3, 1, 1, 11 * TicksPerHour, 12 * TicksPerHour, "completed")>>

(* One access from 10:00 to 11:30 and one cancelled access of 09:00. *)
ExampleSeed ==
    <<AccessRow(1, 1, 1, 10 * TicksPerHour, 10 * TicksPerHour + 1500, "completed"),
      AccessRow(2, 1, 1, 9 * TicksPerHour, NULL, "cancelled")>>

InitRequest ==
    /\ snapshots = <<>>
    /\ pc = "idle"
    /\ endpoint = "none"
    /\ req = NoRequest
    /\ period = NoPeriod
    /\ reportDate = NULL
    /\ locals = NoLocals
    /\ sent = <<>>
    /\ queries = 0
    /\ snapshots0 = <<>>
    /\ generated = <<>>

(* One person, one room with a completed and a cancelled access. *)
Init ==
    /\ persons = {Person1}
    /\ rooms = {Room1}
    /\ accessStore = ExampleSeed
    /\ opsLeft = MaxOps
    /\ InitRequest

(* Two persons, one of them about to become a frequent user. *)
InitReport ==
    /\ persons = {Person1, Person2}
    /\ rooms = {Room1}
    /\ accessStore \in {<<>>, FrequentSeed}
    /\ opsLeft = MaxOps
    /\ InitRequest

(* Two rooms, one of them with a completed and a cancelled access. *)
InitStats ==
    /\ persons = {Person1}
    /\ rooms = {Room1, Room2}
    /\ accessStore \in {<<>>, ExampleSeed}
    /\ opsLeft = MaxOps
    /\ InitRequest

(* The requests of the two history handlers. *)
HistoryRequests ==
    \/ \E q \in DateQueries : getAccessHistories_validate(q[1], q[2])
    \/ \E ok \in BOOLEAN : getAccessHistories_find(ok)
    \/ \E rid \in RoomIdParams, q \in DateQueries :
          getRoomAccessHistories_validate(rid, q[1], q[2])
    \/ \E ok \in BOOLEAN : getRoomAccessHistories_findRoom(ok)
    \/ \E ok \in BOOLEAN : getRoomAccessHistories_find(ok)

(* The requests of the two report handlers. *)
ReportRequests ==
    \/ \E today \in Days, first \in Days :
          first <= today /\ generateDailyReport_begin(first, today)
    \/ \E ok \in BOOLEAN : generateDailyReport_completed(ok)
    \/ \E ok \in BOOLEAN : generateDailyReport_cancelled(ok)
    \/ \E ok \in BOOLEAN : generateDailyReport_grouped(ok)
    \/ \E ok \in BOOLEAN : generateDailyReport_save(ok)
    \/ \E q \in DateQueries : getDateReport_validate(q[1], q[2])
    \/ \E ok \in BOOLEAN : getDateReport_completed(ok)
    \/ \E ok \in BOOLEAN : getDateReport_cancelled(ok)
    \/ \E ok \in BOOLEAN : getDateReport_grouped(ok)
    \/ \E ok \in BOOLEAN : getDateReport_save(ok)

(* The requests of the room statistics. *)
StatsRequests ==
    \/ \E today \in Days, first \in Days :
          first <= today /\ getRoomUsageStats_begin(first, today)
    \/ \E ok \in BOOLEAN : getRoomUsageStats_find(ok)
    \/ \E ok \in BOOLEAN : getRoomUsageStats_rooms(ok)

Next ==
    StoreOp(LongDuration) \/ HistoryRequests \/ ReportRequests \/ StatsRequests

NextReport == StoreOp(LongDuration) \/ ReportRequests

NextStats == StoreOp(Durations) \/ StatsRequests

(* All five handlers over a small access table. *)
Spec == Init /\ [][Next]_vars

(* The report handlers over an access table of two persons. *)
SpecReport == InitReport /\ [][NextReport]_vars

(* The room statistics over an access table of two rooms. *)
SpecStats == InitStats /\ [][NextStats]_vars

-----------------------------------------------------------------------------
(* Properties. *)

ReportEndpoints == {"generateDailyReport", "getDateReport"}

DateEndpoints == {"getAccessHistories", "getRoomAccessHistories", "getDateReport"}

Answered == pc = "done" /\ sent # <<>>

LastStatus == sent[Len(sent)].status

(* The request in flight has been answered 201 with a report. *)
ReportAnswered ==
    Answered /\ endpoint \in ReportEndpoints /\ LastStatus = 201

ReportData == sent[Len(sent)].data

(* The request in flight has been answered 200 with the room statistics. *)
StatsAnswered ==
    Answered /\ endpoint = "getRoomUsageStats" /\ LastStatus = 200

RECURSIVE SumAccessCount(_)
SumAccessCount(users) ==
    IF users = <<>> THEN 0
    ELSE Head(users).accessCount + SumAccessCount(Tail(users))

Occurrences(users, name) ==
    Cardinality({i \in 1..Len(users) : users[i].name = name})

(* C1: in every report answered by generateDailyReport or getDateReport,    *)
(* total_accesses + total_absences is at most the number of access events   *)
(* whose entry_datetime lies in the period of the report.                   *)
C1_TotalsWithinPeriod ==
    ReportAnswered =>
        ReportData.total_accesses + ReportData.total_absences
            <= Len(FindInPeriod(period))

C1_Witness ==
    /\ ReportAnswered
    /\ ReportData.total_accesses >= 1
    /\ ReportData.total_absences >= 1
    /\ Len(FindInPeriod(period)) < Len(accessStore)

CohortsPartition(report, per) ==
    \A p \in persons :
        LET n == Cardinality({a \in Range(FindCompleted(per)) :
                                a.person_id = p.id})
            f == Occurrences(report.frequent_users, FullName(p))
            i == Occurrences(report.infrequent_users, FullName(p))
        IN  /\ n = 0 => f = 0 /\ i = 0
            /\ n > 0 => f + i = 1
            /\ n > 3 => f = 1
            /\ (n > 0 /\ n <= 3) => i = 1

(* C2: when the grouped count returns, every person with at least one      *)
(* access of the period whose exit_datetime is not null is listed exactly   *)
(* once, in frequent_users when the count exceeds 3 and in infrequent_users *)
(* otherwise, and no other person is listed in either cohort.               *)
C2_CohortPartition ==
    [][(pc = "grouped" /\ pc' = "save")
          => CohortsPartition(locals'.report, period)]_vars

C2_Witness ==
    /\ ReportAnswered
    /\ Len(ReportData.frequent_users) = 1
    /\ Len(ReportData.infrequent_users) = 1

(* C10: in every report answered, the accessCount of the users of both      *)
(* cohorts add up to total_accesses.                                        *)
C10_ReportConsistent ==
    ReportAnswered =>
        SumAccessCount(ReportData.frequent_users)
          + SumAccessCount(ReportData.infrequent_users)
            = ReportData.total_accesses

NotCancelledWithExit(accesses, rid) ==
    SelectSeq(accesses, LAMBDA a : /\ a.room_id = rid
                                   /\ a.state # "cancelled"
                                   /\ a.exit_datetime # NULL)

CancelledOf(accesses, rid) ==
    {i \in 1..Len(accesses) :
        accesses[i].room_id = rid /\ accesses[i].state = "cancelled"}

(* C3: a cancelled access counts toward the absences and the cancelled     *)
(* accesses and never toward the completed figures: the statistics of a     *)
(* room count as completed, and sum the durations of, only fetched rows     *)
(* that are not cancelled, and the completed list of a report holds no      *)
(* cancelled row.                                                           *)
C3_CancelledNeverCompleted ==
    /\ StatsAnswered =>
          \A stat \in ReportData.room_stats :
              LET counted == NotCancelledWithExit(locals.accesses, stat.room_id)
              IN  /\ stat.completed_accesses = Len(counted)
                  /\ stat.cancelled_accesses
                        = Cardinality(CancelledOf(locals.accesses, stat.room_id))
                  /\ stat.total_hours_used = ToFixed2(TotalDuration(counted), 1)
                  /\ stat.average_duration
                        = AverageDuration(TotalDuration(counted), Len(counted))
    /\ ReportAnswered =>
          /\ \A i \in 1..Len(locals.accesses) :
                locals.accesses[i].state # "cancelled"
          /\ ReportData.total_accesses = Len(locals.accesses)
          /\ \A i \in 1..Len(locals.absences) :
                locals.absences[i].state = "cancelled"
          /\ ReportData.total_absences = Len(locals.absences)

C3_Witness ==
    /\ StatsAnswered
    /\ \E stat \in ReportData.room_stats :
          /\ stat.cancelled_accesses >= 1
          /\ stat.completed_accesses >= 1
          /\ stat.total_hours_used > 0

(* C4 as stated: every answered request has written exactly one row of the  *)
(* administration table.                                                    *)
C4_OneWritePerRequest ==
    Answered => Len(snapshots) = Len(snapshots0) + 1

(* C4: a request answered 201, which only generateDailyReport and           *)
(* getDateReport do, has written exactly one row; every other request, and  *)
(* every request not yet answered, has written none.                        *)
C4_OneWritePerReport ==
    /\ (Answered /\ LastStatus = 201) =>
          /\ endpoint \in ReportEndpoints
          /\ Len(snapshots) = Len(snapshots0) + 1
    /\ ~(Answered /\ LastStatus = 201) => snapshots = snapshots0

C4_Witness == ReportAnswered /\ Len(snapshots) = Len(snapshots0) + 1

RowsOf(date) == Cardinality({i \in 1..Len(snapshots) : snapshots[i].report_date = date})

GeneratedFor(date) == Cardinality({i \in 1..Len(generated) : generated[i] = date})

(* C5: the administration table only grows (no row is changed or removed),  *)
(* every 201 comes with exactly one new row, and the table holds, for each  *)
(* report_date, as many rows as reports were generated for it.              *)
C5_SnapshotsOnlyGrow ==
    /\ [][/\ Len(snapshots') >= Len(snapshots)
          /\ SubSeq(snapshots', 1, Len(snapshots)) = snapshots
          /\ (pc' = "done" /\ pc # "done" /\ sent'[Len(sent')].status = 201)
                => Len(snapshots') = Len(snapshots) + 1]_vars
    /\ [](\A d \in Days : RowsOf(d) = GeneratedFor(d))

C5_Witness ==
    /\ Len(snapshots) = 2
    /\ snapshots[1].report_date = snapshots[2].report_date
    /\ snapshots[1].id # snapshots[2].id

(* C6: a request that ends with an error response (400, 404 or 500) has     *)
(* sent exactly one envelope, with success = false, and has left the        *)
(* administration table as it found it.                                     *)
C6_ErrorAbortsRequest ==
    (Answered /\ \E i \in 1..Len(sent) : sent[i].status \in {400, 404, 500}) =>
        /\ Len(sent) = 1
        /\ sent[1].success = FALSE
        /\ snapshots = snapshots0

C6_Witness ==
    /\ Answered
    /\ endpoint \in ReportEndpoints
    /\ LastStatus = 500
    /\ locals.report # NoData

Present(v) == v.kind # "undefined"

NonEmptyString(v) == v.kind = "string" /\ v.str # ""

Unparsable(v) == IsNaN(NewDate(v.str))

InvalidDateAnswered ==
    /\ pc = "done"
    /\ Len(sent) = 1
    /\ sent[1].status = 400
    /\ sent[1].message = "Invalid date format. Use YYYY-MM-DD"
    /\ queries = 0
    /\ snapshots = snapshots0

(* C7 as stated: on the three endpoints that take start_date and end_date,  *)
(* a request with both parameters present and at least one of them not      *)
(* parsable as a date is answered 400 "Invalid date format. Use YYYY-MM-DD" *)
(* without a store query or a snapshot write.                               *)
C7_PresentUnparsable ==
    (/\ endpoint \in DateEndpoints
     /\ Present(req.start_date) /\ Present(req.end_date)
     /\ (Unparsable(req.start_date) \/ Unparsable(req.end_date)))
        => InvalidDateAnswered

(* C7: the same for a request whose two parameters are non-empty strings    *)
(* (and, on getRoomAccessHistories, whose room_id parses as an integer).    *)
C7_StringUnparsable ==
    (/\ endpoint \in DateEndpoints
     /\ NonEmptyString(req.start_date) /\ NonEmptyString(req.end_date)
     /\ (Unparsable(req.start_date) \/ Unparsable(req.end_date))
     /\ endpoint = "getRoomAccessHistories" => ~IsNaN(ParseInt(req.room_id)))
        => InvalidDateAnswered

C7_Witness ==
    /\ endpoint = "getRoomAccessHistories"
    /\ req.room_id = <<"1", "x">>
    /\ req.start_date = Str("not-a-date")
    /\ req.end_date = Str("2024-01-01")
    /\ InvalidDateAnswered

UnknownRoomRequested ==
    /\ Answered
    /\ endpoint = "getRoomAccessHistories"
    /\ ~IsNaN(ParseInt(req.room_id))
    /\ \A r \in rooms : r.id # ParseInt(req.room_id)

RoomNotFoundAnswered ==
    /\ Len(sent) = 1
    /\ sent[1].status = 404
    /\ sent[1].message = "Room not found"

(* C8 as stated: every request of getRoomAccessHistories whose room_id       *)
(* parses as an integer and identifies no room is answered 404              *)
(* "Room not found".                                                        *)
C8_UnknownRoom404 ==
    UnknownRoomRequested => RoomNotFoundAnswered

(* C8: such a request whose start_date and end_date are accepted is         *)
(* answered 404 "Room not found" after the room lookup alone, or 500 when   *)
(* the lookup fails.                                                        *)
C8_UnknownRoomValidDates ==
    (UnknownRoomRequested /\ ValidateDates(req.start_date, req.end_date) = "") =>
        /\ queries = 1
        /\ RoomNotFoundAnswered \/ (Len(sent) = 1 /\ sent[1].status = 500)

C8_Witness ==
    /\ UnknownRoomRequested
    /\ RoomNotFoundAnswered
    /\ req.room_id = <<"7">>

Abs(x) == IF x < 0 THEN 0 - x ELSE x

WithExit(accesses, rid) ==
    SelectSeq(accesses, LAMBDA a : a.room_id = rid /\ a.exit_datetime # NULL)

(* C9 as stated: in the statistics of every room, average_duration is       *)
(* total_hours_used / completed_accesses when completed_accesses > 0, and   *)
(* 0 otherwise (both figures in hundredths of an hour).                     *)
C9_AverageIsQuotient ==
    StatsAnswered =>
        \A stat \in ReportData.room_stats :
            IF stat.completed_accesses > 0
            THEN stat.average_duration * stat.completed_accesses
                    = stat.total_hours_used
            ELSE stat.average_duration = 0

(* C9: total_hours_used is the sum of exit - entry over the fetched rows of *)
(* the room with an exit, and average_duration that sum divided by their    *)
(* number, each rounded to the nearest hundredth of an hour;                *)
(* average_duration is 0 when the room has no such row.                     *)
C9_AverageRounded ==
    StatsAnswered =>
        \A stat \in ReportData.room_stats :
            LET done == WithExit(locals.accesses, stat.room_id)
                n == Len(done)
                total == TotalDuration(done)
            IN  /\ stat.completed_accesses = n
                /\ 2 * Abs(stat.total_hours_used * TicksPerHour
                             - HundredthsPerUnit * total) <= TicksPerHour
                /\ n > 0 =>
                      2 * Abs(stat.average_duration * TicksPerHour * n
                               - HundredthsPerUnit * total) <= TicksPerHour * n
                /\ n = 0 => stat.average_duration = 0

(* The example: one access from 10:00 to 11:30 and one cancelled access.    *)
C9_Witness ==
    /\ StatsAnswered
    /\ \E stat \in ReportData.room_stats :
          /\ stat.completed_accesses = 1
          /\ stat.cancelled_accesses = 1
          /\ stat.total_hours_used = 150
          /\ stat.average_duration = 150
    /\ \E stat \in ReportData.room_stats :
          stat.completed_accesses = 0 /\ stat.average_duration = 0

=============================================================================
